---------------------------- MODULE Spec2Model ----------------------------
(***************************************************************************)
(* Model of the Stuff+ scoring core of src/pages/1_Player Lookup.py:       *)
(*   load_all_player_data (the pitch-type filter and numeric coercion),    *)
(*   calculate_bonnies_stuff_plus_for_pitch_type (the scorer) and          *)
(*   calculate_player_stuff_plus (grouping, reference fastball velocity,   *)
(*   result mapping).                                                      *)
(*                                                                         *)
(* Numbers.  The program computes in floating point; the model computes    *)
(* the same formulas exactly, in fixed point:                              *)
(*   - a raw field is an integer (mph, rpm, inches, degrees; tenths of a   *)
(*     foot for the two release coordinates);                              *)
(*   - a mean is held in units of 1/MeanScale of the raw unit;             *)
(*   - a factor score is held in units of 1/ScoreScale;                    *)
(*   - a weight is held in thousandths, a composite in units of            *)
(*     1/CompositeUnit, a Stuff+ value in units of 1/StuffUnit.            *)
(* NaN (a missing number) and None are distinguished values; comparisons   *)
(* with NaN are false, as in Python, and min/max are Python's.             *)
(*                                                                         *)
(* Text.  A pitch-type label is a sequence of characters, so that exact    *)
(* equality and case-insensitive substring search are computed.            *)
(***************************************************************************)
EXTENDS Integers, Sequences, FiniteSets, TLC

VARIABLES
    pc,                       \* position of the page's run
    csv_rows,                 \* rows of the player's CSV as read (line 137)
    columns,                  \* column names of the CSV
    pitch_data,               \* the player's table after load_all_player_data
    player_fastball_velocity, \* local of calculate_player_stuff_plus
    cat_idx,                  \* position in pitch_type_mapping.items()
    pitch_type_data,          \* the group selected by the last iteration
    pitch_stuff,              \* the result mapping being built
    call,                     \* arguments of the last scorer invocation
    locals,                   \* locals of the last scorer invocation
    subset,                   \* pitch_subset: the rows of one pitch type shown
    display,                  \* what the chart and the summary table show of it
    runs,                     \* frames of concurrent calculate_player_stuff_plus calls
    fetch                     \* locals of fetch_player_forcedecks_tests

vars == <<pc, csv_rows, columns, pitch_data, player_fastball_velocity,
          cat_idx, pitch_type_data, pitch_stuff, call, locals, subset, display,
          runs, fetch>>

-----------------------------------------------------------------------------
(* Bounds of the model *)

\* largest number of rows of a player's CSV
MaxRows == 2

-----------------------------------------------------------------------------
(* Fixed-point units *)

\* lcm(1..6): a mean of up to 6 integers is a whole number of 1/60
MeanScale == 3 * 4 * 5

\* lcm of the divisors of the scoring curves (30, 25, 1200, 1500, 1000, 20, 15, 10)
PerUnit == 4 * 1500

\* units of one factor-score point (the score 1.0)
ScoreScale == PerUnit * MeanScale

\* a weight of 1.0, in thousandths
WeightUnit == 10 * 10 * 10

\* a composite of 1.0
CompositeUnit == ScoreScale * WeightUnit

\* one Stuff+ point: composite * 100 is a Stuff+ difference
StuffUnit == CompositeUnit \div 100

\* np.nan: a missing number
NaN == -999999999

\* Python's None
None == -999999998

\* a CSV cell that is not a number (to_numeric coerces it)
Unparsable == -999999997

IsNaN(x) == x = NaN


-----------------------------------------------------------------------------
(* Python and pandas arithmetic on numbers that may be NaN *)

\* a - b
Sub(a, b) == IF IsNaN(a) \/ IsNaN(b) THEN NaN ELSE a - b

\* a + b
Add(a, b) == IF IsNaN(a) \/ IsNaN(b) THEN NaN ELSE a + b

\* a * k for a whole number k
Times(a, k) == IF IsNaN(a) THEN NaN ELSE a * k

\* abs(a)
Abs(a) == IF IsNaN(a) THEN NaN ELSE IF a < 0 THEN -a ELSE a

\* a < b as Python evaluates it: false when either side is NaN
Less(a, b) == ~IsNaN(a) /\ ~IsNaN(b) /\ a < b

\* the builtin max(a, b): the first argument unless the second is greater
PyMax(a, b) == IF Less(a, b) THEN b ELSE a

\* the builtin min(a, b): the first argument unless the second is smaller
PyMin(a, b) == IF Less(b, a) THEN b ELSE a

\* a literal of the source, in the units of a mean
Lit(n) == n * MeanScale

\* x / d as a factor score, for x in the units of a mean and d a literal
Quot(x, d) == IF IsNaN(x) THEN NaN ELSE x * (PerUnit \div d)

\* the score 1.0
One == ScoreScale

RECURSIVE SumSeq(_)
SumSeq(s) == IF s = <<>> THEN 0 ELSE Head(s) + SumSeq(Tail(s))

\* Series.dropna()
DropNa(s) == SelectSeq(s, LAMBDA x : ~IsNaN(x))

\* Series.mean() with a missing value counted as a zero
MeanNaAsZero(s) ==
    IF s = <<>> THEN NaN
    ELSE (SumSeq(DropNa(s)) * MeanScale) \div Len(s)

\* Series.mean(): the mean of the values present, NaN when there is none
Mean(s) ==
    LET present == DropNa(s)
    IN  IF present = <<>> THEN NaN
        ELSE (SumSeq(present) * MeanScale) \div Len(present)

\* df[name]: one column of a table
Column(df, name) == [i \in 1..Len(df) |-> df[i][name]]

-----------------------------------------------------------------------------
(* Text *)

UpperCase == <<"A","B","C","D","E","F","G","H","I","J","K","L","M",
               "N","O","P","Q","R","S","T","U","V","W","X","Y","Z">>

LowerCase == <<"a","b","c","d","e","f","g","h","i","j","k","l","m",
               "n","o","p","q","r","s","t","u","v","w","x","y","z">>

\* one character, case folded
LowerChar(c) ==
    IF \E i \in 1..Len(UpperCase) : UpperCase[i] = c
    THEN LowerCase[CHOOSE i \in 1..Len(UpperCase) : UpperCase[i] = c]
    ELSE c

\* a text, case folded
Lower(s) == [i \in 1..Len(s) |-> LowerChar(s[i])]

\* sub occurs in s
HasSubstring(s, sub) ==
    \E i \in 1..(Len(s) - Len(sub) + 1) : SubSeq(s, i, i + Len(sub) - 1) = sub

\* a missing pitch type (an empty CSV cell read as NaN)
NaLabel == <<"NaN">>

\* Series.str.contains(pat, case=False, na=False) for one value
StrContains(s, pat) == s # NaLabel /\ HasSubstring(Lower(s), Lower(pat))

S_Fastball == <<"F","a","s","t","b","a","l","l">>
S_ChangeUp == <<"C","h","a","n","g","e","U","p">>
S_Slider == <<"S","l","i","d","e","r">>
S_Curveball == <<"C","u","r","v","e","b","a","l","l">>
S_CurveBall == <<"C","u","r","v","e","B","a","l","l">>
S_Cutter == <<"C","u","t","t","e","r">>
S_Splitter == <<"S","p","l","i","t","t","e","r">>
S_Dash == <<"-">>
S_Empty == <<>>

-----------------------------------------------------------------------------
(* calculate_bonnies_stuff_plus_for_pitch_type *)

\* the weights dictionary, in thousandths
weights ==
    [velocity |-> 225, spin_rate |-> 175, release_height |-> 125,
     distinctive_shape |-> 125, release_side |-> 85, horizontal_break |-> 100,
     vertical_break |-> 100, speed_diff |-> 75, horizontal_angle |-> 50]

\* MeanOrDefault falling back to the default for an all-missing column too
MeanOrDefaultFillNa(df, cols, name, default) ==
    IF name \in cols /\ ~IsNaN(Mean(Column(df, name)))
    THEN Mean(Column(df, name)) ELSE default

\* df[name].mean() if name in df.columns else the default
MeanOrDefault(df, cols, name, default) ==
    IF name \in cols THEN Mean(Column(df, name)) ELSE default

\* the aggregated metrics of one group
Metrics(df, cols) ==
    [velocity |-> Mean(Column(df, "Velocity")),
     spin_rate |-> Mean(Column(df, "Total Spin")),
     release_height |-> MeanOrDefault(df, cols, "Release Height", Lit(55)),
     release_side |-> MeanOrDefault(df, cols, "Release Side", 0),
     horizontal_angle |-> MeanOrDefault(df, cols, "Horizontal Angle", 0),
     h_break |-> IF "HB (trajectory)" \in cols
                 THEN Abs(Mean(Column(df, "HB (trajectory)"))) ELSE 0,
     v_break |-> MeanOrDefault(df, cols, "VB (trajectory)", 0)]

\* SpeedDiff without the max(0, ...): the signed difference
SpeedDiffSigned(pitch_type, fastball_velocity, velocity) ==
    IF pitch_type # S_Fastball /\ fastball_velocity # None
    THEN Sub(fastball_velocity, velocity)
    ELSE 0

\* speed difference vs the player's own fastball
SpeedDiff(pitch_type, fastball_velocity, velocity) ==
    IF pitch_type # S_Fastball /\ fastball_velocity # None
    THEN PyMax(0, Sub(fastball_velocity, velocity))
    ELSE 0

\* velocity_score without the ChangeUp branch
velocity_score_no_changeup(pitch_type, velocity) ==
    IF pitch_type = S_Fastball
    THEN PyMin(One, PyMax(0, Quot(Sub(velocity, Lit(70)), 30)))
    ELSE PyMin(One, PyMax(0, Quot(Sub(velocity, Lit(65)), 30)))

\* velocity_score reading no velocity: 0.5 for every pitch
velocity_score_flat(pitch_type, velocity) == One \div 2

\* velocity_score with the Fastball range starting at 80 mph
velocity_score_fastball_from_80(pitch_type, velocity) ==
    IF pitch_type = S_Fastball
    THEN PyMin(One, PyMax(0, Quot(Sub(velocity, Lit(80)), 30)))
    ELSE IF pitch_type = S_ChangeUp
    THEN PyMin(One, PyMax(0, Quot(Sub(velocity, Lit(65)), 25)))
    ELSE PyMin(One, PyMax(0, Quot(Sub(velocity, Lit(65)), 30)))

velocity_score(pitch_type, velocity) ==
    IF pitch_type = S_Fastball
    THEN PyMin(One, PyMax(0, Quot(Sub(velocity, Lit(70)), 30)))
    ELSE IF pitch_type = S_ChangeUp
    THEN PyMin(One, PyMax(0, Quot(Sub(velocity, Lit(65)), 25)))
    ELSE PyMin(One, PyMax(0, Quot(Sub(velocity, Lit(65)), 30)))

\* spin_score with the ChangeUp curve neither floored nor capped
spin_score_unclipped(pitch_type, spin_rate) ==
    IF pitch_type = S_Fastball
    THEN PyMin(One, PyMax(0, Quot(Sub(spin_rate, Lit(1800)), 1200)))
    ELSE IF pitch_type = S_ChangeUp
    THEN Sub(One, Quot(Sub(spin_rate, Lit(1000)), 1500))
    ELSE PyMin(One, PyMax(0, Quot(Sub(spin_rate, Lit(2000)), 1000)))

spin_score(pitch_type, spin_rate) ==
    IF pitch_type = S_Fastball
    THEN PyMin(One, PyMax(0, Quot(Sub(spin_rate, Lit(1800)), 1200)))
    ELSE IF pitch_type = S_ChangeUp
    THEN PyMax(One \div 5,
               PyMin(One, Sub(One, Quot(Sub(spin_rate, Lit(1000)), 1500))))
    ELSE PyMin(One, PyMax(0, Quot(Sub(spin_rate, Lit(2000)), 1000)))

\* height_score without the min(1.0, ...)
height_score_uncapped(release_height) ==
    Quot(Abs(Sub(release_height, Lit(55))), 10)

\* release coordinates are in tenths of a foot: 5.5 ft is 55, 1.0 ft is 10
height_score(release_height) ==
    PyMin(One, Quot(Abs(Sub(release_height, Lit(55))), 10))

side_score(release_side) ==
    PyMin(One, Quot(Abs(Sub(release_side, Lit(0))), 20))

angle_score(horizontal_angle) ==
    PyMax(0, Sub(One, Quot(Abs(horizontal_angle), 20)))

\* speed_diff_score giving every pitch type the constant 0.5
speed_diff_score_half(pitch_type, speed_diff) == One \div 2

speed_diff_score(pitch_type, speed_diff) ==
    IF pitch_type # S_Fastball THEN PyMin(One, Quot(speed_diff, 15))
    ELSE One \div 2

h_break_score(h_break) == PyMin(One, Quot(h_break, 20))

v_break_score(v_break) == PyMin(One, Quot(Abs(v_break), 20))

distinctive_shape_score(h_break, v_break) ==
    PyMin(One, Quot(Abs(Sub(h_break, Abs(v_break))), 15))

\* the nine factor scores of one group
Scores(pitch_type, m, speed_diff) ==
    [velocity |-> velocity_score(pitch_type, m.velocity),
     spin_rate |-> spin_score(pitch_type, m.spin_rate),
     release_height |-> height_score(m.release_height),
     release_side |-> side_score(m.release_side),
     horizontal_angle |-> angle_score(m.horizontal_angle),
     speed_diff |-> speed_diff_score(pitch_type, speed_diff),
     horizontal_break |-> h_break_score(m.h_break),
     vertical_break |-> v_break_score(m.v_break),
     distinctive_shape |-> distinctive_shape_score(m.h_break, m.v_break)]

\* the weighted composite, summed in the order of the source
composite_score(s) ==
    Add(Add(Add(Add(Add(Add(Add(Add(
        Times(s.velocity, weights.velocity),
        Times(s.spin_rate, weights.spin_rate)),
        Times(s.release_height, weights.release_height)),
        Times(s.release_side, weights.release_side)),
        Times(s.horizontal_angle, weights.horizontal_angle)),
        Times(s.speed_diff, weights.speed_diff)),
        Times(s.horizontal_break, weights.horizontal_break)),
        Times(s.vertical_break, weights.vertical_break)),
        Times(s.distinctive_shape, weights.distinctive_shape))

\* StuffPlusScale without the centring on 0.5: 100 + composite_score * 100
StuffPlusScaleUncentred(composite) ==
    Add(100 * StuffUnit, Times(composite, (100 * StuffUnit) \div CompositeUnit))

\* 100 + (composite_score - 0.5) * 100
StuffPlusScale(composite) ==
    Add(100 * StuffUnit,
        Times(Sub(composite, CompositeUnit \div 2),
              (100 * StuffUnit) \div CompositeUnit))

\* max(40, min(160, stuff_plus))
StuffPlusCap(stuff_plus) ==
    PyMax(40 * StuffUnit, PyMin(160 * StuffUnit, stuff_plus))

\* ScorerLocals returning the 0-1 composite in place of the Stuff+ value
ScorerLocalsComposite(df, cols, pitch_type, fastball_velocity) ==
    LET m == Metrics(df, cols)
        sd == SpeedDiff(pitch_type, fastball_velocity, m.velocity)
        s == Scores(pitch_type, m, sd)
        c == composite_score(s)
    IN  [metrics |-> m, speed_diff |-> sd, scores |-> s,
         composite_score |-> c, uncapped |-> StuffPlusScale(c),
         stuff_plus |-> IF IsNaN(c) THEN NaN ELSE c \div 100]

\* every local of one invocation of the scorer, stuff_plus being its result
ScorerLocals(df, cols, pitch_type, fastball_velocity) ==
    LET m == Metrics(df, cols)
        sd == SpeedDiff(pitch_type, fastball_velocity, m.velocity)
        s == Scores(pitch_type, m, sd)
        c == composite_score(s)
    IN  [metrics |-> m, speed_diff |-> sd, scores |-> s,
         composite_score |-> c, uncapped |-> StuffPlusScale(c),
         stuff_plus |-> StuffPlusCap(StuffPlusScale(c))]

calculate_bonnies_stuff_plus_for_pitch_type(df, cols, pitch_type, fastball_velocity) ==
    ScorerLocals(df, cols, pitch_type, fastball_velocity).stuff_plus

\* display_pitch_stuff_details: the grade shown for a Stuff+ value
Interpretation(stuff_plus_val) ==
    IF stuff_plus_val >= 120 * StuffUnit THEN "Elite"
    ELSE IF stuff_plus_val >= 110 * StuffUnit THEN "Above Average"
    ELSE IF stuff_plus_val >= 90 * StuffUnit THEN "Average"
    ELSE IF stuff_plus_val >= 80 * StuffUnit THEN "Below Average"
    ELSE "Poor"

-----------------------------------------------------------------------------
(* Tables *)

AllColumns ==
    {"Pitch Type", "Velocity", "Total Spin", "VB (trajectory)", "HB (trajectory)",
     "Release Height", "Release Side", "Horizontal Angle"}

\* the columns load_all_player_data converts to numbers
numeric_cols ==
    {"Velocity", "Total Spin", "VB (trajectory)", "HB (trajectory)",
     "Release Height", "Release Side", "Horizontal Angle"}

\* one row of a table
Row(label, velocity, spin, vb, hb, height, side, angle) ==
    [c \in AllColumns |->
        CASE c = "Pitch Type" -> label
          [] c = "Velocity" -> velocity
          [] c = "Total Spin" -> spin
          [] c = "VB (trajectory)" -> vb
          [] c = "HB (trajectory)" -> hb
          [] c = "Release Height" -> height
          [] c = "Release Side" -> side
          [] c = "Horizontal Angle" -> angle]

\* pd.to_numeric(value, errors='coerce')
ToNumeric(x) == IF x = Unparsable THEN NaN ELSE x

-----------------------------------------------------------------------------
(* load_all_player_data: the rows kept for one player *)

\* ValidPitches without the notna() filter of line 140
ValidPitchesNoNotna(rows) ==
    LET nodash == SelectSeq(rows, LAMBDA r : r["Pitch Type"] # S_Dash)
    IN  SelectSeq(nodash, LAMBDA r : r["Pitch Type"] # S_Empty)

\* the three filters on 'Pitch Type'
ValidPitches(rows) ==
    LET notna == SelectSeq(rows, LAMBDA r : r["Pitch Type"] # NaLabel)
        nodash == SelectSeq(notna, LAMBDA r : r["Pitch Type"] # S_Dash)
    IN  SelectSeq(nodash, LAMBDA r : r["Pitch Type"] # S_Empty)

\* the numeric columns that exist, coerced
Coerced(rows, cols) ==
    [i \in 1..Len(rows) |->
        [c \in AllColumns |->
            IF c \in numeric_cols /\ c \in cols THEN ToNumeric(rows[i][c])
            ELSE rows[i][c]]]

-----------------------------------------------------------------------------
(* calculate_player_stuff_plus *)

\* pitch_type_mapping.items(), in insertion order: <<category, variants>>
pitch_type_mapping ==
    << <<S_Fastball, <<S_Fastball>> >>,
       <<S_ChangeUp, <<S_ChangeUp>> >>,
       <<S_Slider, <<S_Slider>> >>,
       <<S_Curveball, <<S_CurveBall>> >>,
       <<S_Cutter, <<S_Cutter>> >>,
       <<S_Splitter, <<S_Splitter>> >> >>

\* Series.isin(values) for one value
IsIn(x, values) == \E i \in 1..Len(values) : values[i] = x

\* FastballData by exact matching
FastballDataExact(data) ==
    SelectSeq(data, LAMBDA r : r["Pitch Type"] = S_Fastball)

\* the rows whose pitch type contains 'Fastball', case ignored
FastballData(data) ==
    SelectSeq(data, LAMBDA r : StrContains(r["Pitch Type"], S_Fastball))

\* the player's fastball velocity
FastballVelocity(data) ==
    IF Len(FastballData(data)) > 0
    THEN Mean(Column(FastballData(data), "Velocity"))
    ELSE None

\* PitchTypeData by substring matching, case ignored
PitchTypeDataContains(data, pitch_variants) ==
    SelectSeq(data, LAMBDA r :
        \E i \in 1..Len(pitch_variants) :
            StrContains(r["Pitch Type"], pitch_variants[i]))

\* the rows of one category, by exact matching
PitchTypeData(data, pitch_variants) ==
    SelectSeq(data, LAMBDA r : IsIn(r["Pitch Type"], pitch_variants))

\* EnoughPitches off by one: an empty group is scored too
EnoughPitches0(group) == Len(group) >= 0

\* EnoughPitches with the earlier threshold of 3
EnoughPitches3(group) == Len(group) >= 3

\* len(pitch_type_data) >= 1
EnoughPitches(group) == Len(group) >= 1

\* the entry with the signed mean horizontal break
EntrySignedBreak(group, cols, pitch_category, fastball_velocity) ==
    LET avg_velocity == Mean(Column(group, "Velocity"))
    IN  [stuff_plus |-> calculate_bonnies_stuff_plus_for_pitch_type(
                            group, cols, pitch_category, fastball_velocity),
         count |-> Len(group),
         avg_velocity |-> avg_velocity,
         avg_spin |-> Mean(Column(group, "Total Spin")),
         avg_h_break |-> IF "HB (trajectory)" \in cols
                         THEN Mean(Column(group, "HB (trajectory)")) ELSE 0,
         avg_v_break |-> IF "VB (trajectory)" \in cols
                         THEN Mean(Column(group, "VB (trajectory)")) ELSE 0,
         speed_diff |-> IF pitch_category # S_Fastball /\ fastball_velocity # None
                        THEN Sub(fastball_velocity, avg_velocity) ELSE 0]

\* the entry stored for one category
Entry(group, cols, pitch_category, fastball_velocity) ==
    LET avg_velocity == Mean(Column(group, "Velocity"))
    IN  [stuff_plus |-> calculate_bonnies_stuff_plus_for_pitch_type(
                            group, cols, pitch_category, fastball_velocity),
         count |-> Len(group),
         avg_velocity |-> avg_velocity,
         avg_spin |-> Mean(Column(group, "Total Spin")),
         avg_h_break |-> IF "HB (trajectory)" \in cols
                         THEN Abs(Mean(Column(group, "HB (trajectory)"))) ELSE 0,
         avg_v_break |-> IF "VB (trajectory)" \in cols
                         THEN Mean(Column(group, "VB (trajectory)")) ELSE 0,
         speed_diff |-> IF pitch_category # S_Fastball /\ fastball_velocity # None
                        THEN Sub(fastball_velocity, avg_velocity) ELSE 0]

\* the mapping calculate_player_stuff_plus returns for a table
PlayerStuffPlus(data, cols) ==
    LET fastball_velocity == FastballVelocity(data)
        Group(i) == PitchTypeData(data, pitch_type_mapping[i][2])
        scored == {i \in 1..Len(pitch_type_mapping) : EnoughPitches(Group(i))}
        IndexOf(k) == CHOOSE i \in scored : pitch_type_mapping[i][1] = k
    IN  [k \in {pitch_type_mapping[i][1] : i \in scored} |->
            Entry(Group(IndexOf(k)), cols, k, fastball_velocity)]

\* f with key k set to v (a dict assignment)
Put(f, k, v) == [x \in DOMAIN f \cup {k} |-> IF x = k THEN v ELSE f[x]]

\* the empty dict
EmptyDict == [x \in {} |-> 0]

-----------------------------------------------------------------------------
(* Inputs *)

\* no scorer invocation yet
NoCall ==
    [made |-> FALSE, df |-> <<>>, cols |-> {}, pitch_type |-> S_Empty,
     player_fastball_velocity |-> None]

NoLocals ==
    [metrics |-> <<>>, speed_diff |-> 0, scores |-> <<>>,
     composite_score |-> 0, uncapped |-> 0, stuff_plus |-> 0]

\* nothing displayed yet
NoDisplay == [shown |-> FALSE]

\* no concurrent invocation has been started
NoRuns == <<>>

\* fetch_player_forcedecks_tests has not been called
NoFetch == [pc |-> "idle"]

\* Series.str on the 'Pitch Type' column raises AttributeError when the column
\* holds no text: read_csv gives a column of empty cells the dtype float64
StrAccessorFails(data) ==
    /\ Len(data) > 0
    /\ \A i \in 1..Len(data) : data[i]["Pitch Type"] = NaLabel

S_fastball == <<"f","a","s","t","b","a","l","l">>
S_Fastball2Seam == S_Fastball \o <<" ","(","2","-","s","e","a","m",")">>

\* pitch-type cells of the CSV rows drawn
CsvLabels ==
    {S_Fastball, S_fastball, S_Fastball2Seam, S_ChangeUp, S_CurveBall,
     S_Dash, S_Empty, NaLabel}

\* velocity cells of the CSV rows drawn
CsvVelocities == {Unparsable, 78, 95}

\* the CSV rows drawn: every label with every velocity cell, breaking to the
\* glove side, and two pitches breaking the other way; the other cells are
\* those of a typical pitch
CsvRows ==
    {Row(l, v, 2400, 14, -8, 60, -18, 2) : l \in CsvLabels, v \in CsvVelocities}
    \cup {Row(l, 95, 2400, 14, 8, 60, -18, 2) : l \in {S_Fastball, S_ChangeUp}}

\* the column sets drawn: a full export, and one without release geometry
CsvColumnSets ==
    {AllColumns,
     AllColumns \ {"Release Height", "Release Side", "Horizontal Angle"}}

\* tables of at most n rows
Tables(rows, n) == UNION {[1..k -> rows] : k \in 0..n}

-----------------------------------------------------------------------------
(* The page's run for one player: load, then score every category *)

Init ==
    /\ pc = "csv"
    /\ csv_rows \in Tables(CsvRows, MaxRows)
    /\ columns \in CsvColumnSets
    /\ pitch_data = <<>>
    /\ player_fastball_velocity = None
    /\ cat_idx = 0
    /\ pitch_type_data = <<>>
    /\ pitch_stuff = EmptyDict
    /\ call = NoCall
    /\ locals = NoLocals
    /\ subset = <<>>
    /\ display = NoDisplay
    /\ runs = NoRuns
    /\ fetch = NoFetch

\* load_all_player_data, lines 139-178: the player is stored only with a pitch left
LoadPlayerData ==
    /\ pc = "csv"
    /\ LET kept == ValidPitches(csv_rows)
       IN  IF Len(kept) > 0
           THEN /\ pitch_data' = Coerced(kept, columns)
                /\ pc' = "loaded"
           ELSE /\ pitch_data' = pitch_data
                /\ pc' = "no_player"
    /\ UNCHANGED <<csv_rows, columns, player_fastball_velocity, cat_idx,
                   pitch_type_data, pitch_stuff, call, locals>>
    /\ UNCHANGED <<subset, display>>
    /\ UNCHANGED <<runs, fetch>>

\* calculate_player_stuff_plus, lines 317-333
ComputeFastballVelocity ==
    /\ pc = "loaded"
    /\ IF StrAccessorFails(pitch_data)
       THEN /\ pc' = "error"
            /\ UNCHANGED <<player_fastball_velocity, pitch_stuff, cat_idx>>
       ELSE /\ player_fastball_velocity' = FastballVelocity(pitch_data)
            /\ pitch_stuff' = EmptyDict
            /\ cat_idx' = 1
            /\ pc' = "loop"
    /\ UNCHANGED <<csv_rows, columns, pitch_data, pitch_type_data, call, locals>>
    /\ UNCHANGED <<subset, display>>
    /\ UNCHANGED <<runs, fetch>>

\* one iteration of the loop of lines 335-361
ScoreCategory ==
    /\ pc = "loop"
    /\ cat_idx <= Len(pitch_type_mapping)
    /\ LET pitch_category == pitch_type_mapping[cat_idx][1]
           pitch_variants == pitch_type_mapping[cat_idx][2]
           group == PitchTypeData(pitch_data, pitch_variants)
       IN  /\ pitch_type_data' = group
           /\ IF EnoughPitches(group)
              THEN /\ call' = [made |-> TRUE, df |-> group, cols |-> columns,
                               pitch_type |-> pitch_category,
                               player_fastball_velocity |-> player_fastball_velocity]
                   /\ locals' = ScorerLocals(group, columns, pitch_category,
                                             player_fastball_velocity)
                   /\ pitch_stuff' = Put(pitch_stuff, pitch_category,
                                         Entry(group, columns, pitch_category,
                                               player_fastball_velocity))
              ELSE UNCHANGED <<call, locals, pitch_stuff>>
    /\ cat_idx' = cat_idx + 1
    /\ UNCHANGED <<pc, csv_rows, columns, pitch_data, player_fastball_velocity>>
    /\ UNCHANGED <<subset, display>>
    /\ UNCHANGED <<runs, fetch>>

\* return pitch_stuff, line 363
ReturnPitchStuff ==
    /\ pc = "loop"
    /\ cat_idx > Len(pitch_type_mapping)
    /\ pc' = "done"
    /\ UNCHANGED <<csv_rows, columns, pitch_data, player_fastball_velocity,
                   cat_idx, pitch_type_data, pitch_stuff, call, locals>>
    /\ UNCHANGED <<subset, display>>
    /\ UNCHANGED <<runs, fetch>>

Next ==
    \/ LoadPlayerData
    \/ ComputeFastballVelocity
    \/ ScoreCategory
    \/ ReturnPitchStuff

Spec == Init /\ [][Next]_vars

-----------------------------------------------------------------------------
(* calculate_player_stuff_plus alone, applied to a table as read: the rows
   load_all_player_data would drop are passed too *)

InitCalc ==
    /\ pc = "loaded"
    /\ csv_rows \in Tables(CsvRows, MaxRows)
    /\ columns \in CsvColumnSets
    /\ pitch_data = Coerced(csv_rows, columns)
    /\ player_fastball_velocity = None
    /\ cat_idx = 0
    /\ pitch_type_data = <<>>
    /\ pitch_stuff = EmptyDict
    /\ call = NoCall
    /\ locals = NoLocals
    /\ subset = <<>>
    /\ display = NoDisplay
    /\ runs = NoRuns
    /\ fetch = NoFetch

NextCalc ==
    \/ ComputeFastballVelocity
    \/ ScoreCategory
    \/ ReturnPitchStuff

SpecCalc == InitCalc /\ [][NextCalc]_vars

-----------------------------------------------------------------------------
(* The scorer alone, applied to one group *)

GridVelocities == {62, 85, 102}
GridSpins == {900, 2400, 3200}
GridHeights == {55, 60, 70}
GridSides == {0, -18, 25}
GridAngles == {0, 2, -25}
GridHBreaks == {0, -8, 40}
GridVBreaks == {0, 14, -20}

\* groups of one pitch, every metric varied on its own
GridFrames ==
    {[df |-> <<Row(S_Fastball, v, s, vb, hb, h, sd, a)>>, cols |-> AllColumns] :
        v \in GridVelocities, s \in GridSpins, vb \in GridVBreaks,
        hb \in GridHBreaks, h \in GridHeights, sd \in GridSides, a \in GridAngles}

\* pitches for the groups of two: a slow one, a hard one, one with no number read
PairRows ==
    {Row(S_Fastball, 78, 1500, 14, 8, 60, -18, 2),
     Row(S_Fastball, 95, 2400, -6, -12, 52, 20, -4),
     Row(S_Fastball, NaN, NaN, NaN, NaN, NaN, NaN, NaN)}

\* groups of one or two of these pitches, with and without release geometry
PairFrames ==
    {[df |-> t, cols |-> c] :
        t \in Tables(PairRows, 2) \ {<<>>}, c \in CsvColumnSets}

\* the number of pitches of the scenario group
ScenarioPitches == 10

\* a group of identical four-seam fastballs: 95 mph, 2400 rpm, 8 in of
\* horizontal and 14 in of vertical break, released at 6.0 ft, -1.8 ft, 2 deg
ScenarioFrames ==
    {[df |-> [i \in 1..ScenarioPitches |->
                 Row(S_Fastball, 95, 2400, 14, 8, 60, -18, 2)],
      cols |-> AllColumns]}

\* the pitch_type argument: the six categories
ScoredTypes == {pitch_type_mapping[i][1] : i \in 1..Len(pitch_type_mapping)}

\* the player_fastball_velocity argument
ScoredReferences == {None, NaN, Lit(70), Lit(95), Lit(120)}

ScoreCalls ==
    {[made |-> FALSE, df |-> f.df, cols |-> f.cols, pitch_type |-> p,
      player_fastball_velocity |-> r] :
        f \in GridFrames \cup PairFrames \cup ScenarioFrames, p \in ScoredTypes,
        r \in ScoredReferences}

InitScore ==
    /\ pc = "call"
    /\ call \in ScoreCalls
    /\ locals = NoLocals
    /\ csv_rows = <<>>
    /\ columns = AllColumns
    /\ pitch_data = <<>>
    /\ player_fastball_velocity = None
    /\ cat_idx = 0
    /\ pitch_type_data = <<>>
    /\ pitch_stuff = EmptyDict
    /\ subset = <<>>
    /\ display = NoDisplay
    /\ runs = NoRuns
    /\ fetch = NoFetch

\* calculate_bonnies_stuff_plus_for_pitch_type, lines 233-313
Score ==
    /\ pc = "call"
    /\ locals' = ScorerLocals(call.df, call.cols, call.pitch_type,
                              call.player_fastball_velocity)
    /\ call' = [call EXCEPT !.made = TRUE]
    /\ pc' = "returned"
    /\ UNCHANGED <<csv_rows, columns, pitch_data, player_fastball_velocity,
                   cat_idx, pitch_type_data, pitch_stuff>>
    /\ UNCHANGED <<subset, display>>
    /\ UNCHANGED <<runs, fetch>>

NextScore == Score

SpecScore == InitScore /\ [][NextScore]_vars

-----------------------------------------------------------------------------
(* Properties of the scorer, checked under SpecScore *)

\* every aggregated metric is a number
FiniteMetrics(m) ==
    /\ ~IsNaN(m.velocity) /\ ~IsNaN(m.spin_rate) /\ ~IsNaN(m.release_height)
    /\ ~IsNaN(m.release_side) /\ ~IsNaN(m.horizontal_angle)
    /\ ~IsNaN(m.h_break) /\ ~IsNaN(m.v_break)

\* the scorer has returned, its metrics finite, its reference finite or None
ScoredFinite ==
    /\ pc = "returned"
    /\ FiniteMetrics(locals.metrics)
    /\ ~IsNaN(call.player_fastball_velocity)

\* the nine factor scores, as a set
ScoreSet(s) ==
    {s.velocity, s.spin_rate, s.release_height, s.release_side,
     s.horizontal_angle, s.speed_diff, s.horizontal_break, s.vertical_break,
     s.distinctive_shape}

\* C1: for finite metrics and a finite or None reference, the Stuff+ returned
\* lies in [40, 160]
C1_StuffPlusBounded ==
    ScoredFinite =>
        /\ locals.stuff_plus >= 40 * StuffUnit
        /\ locals.stuff_plus <= 160 * StuffUnit

\* a finite group with a known reference scored above 150
C1_Witness ==
    /\ ScoredFinite
    /\ call.player_fastball_velocity # None
    /\ locals.stuff_plus > 150 * StuffUnit

\* the sum of the nine weights, in thousandths
WeightSum ==
    weights.velocity + weights.spin_rate + weights.release_height
    + weights.distinctive_shape + weights.release_side
    + weights.horizontal_break + weights.vertical_break + weights.speed_diff
    + weights.horizontal_angle

\* C2: the nine weights sum to exactly 1.0, so a group whose factor scores all
\* equal one value s has composite s (0.5 for nine scores of 0.5)
C2_WeightsSumToOne ==
    /\ WeightSum = WeightUnit
    /\ (pc = "returned" /\ Cardinality(ScoreSet(locals.scores)) = 1)
          => \A x \in ScoreSet(locals.scores) :
                 locals.composite_score = x * WeightUnit

\* C3: a composite of exactly 0.5 gives a Stuff+ of exactly 100
C3_HalfIsHundred ==
    (pc = "returned" /\ locals.composite_score = CompositeUnit \div 2)
        => locals.stuff_plus = 100 * StuffUnit

\* a finite group whose composite is exactly 0.5
C3_Witness ==
    /\ ScoredFinite
    /\ locals.composite_score = CompositeUnit \div 2
    /\ locals.stuff_plus = 100 * StuffUnit

\* C4: the speed-differential score is 0.5 for every Fastball group and for
\* every other group scored with reference None
C4_SpeedDiffFallback ==
    (pc = "returned"
        /\ (call.pitch_type = S_Fastball \/ call.player_fastball_velocity = None))
        => locals.scores.speed_diff = One \div 2

\* max(0, x) and min(1.0, x) on numbers
Max0(x) == IF x < 0 THEN 0 ELSE x
Min1(x) == IF x > One THEN One ELSE x
Clip01(x) == Min1(Max0(x))

\* C5: for a non-Fastball group with a known reference ref and mean velocity v
\* the speed-differential score is min(1, max(0, ref - v) / 15): positive when
\* v < ref, 0 when v >= ref
C5_SpeedDiffKnownReference ==
    (ScoredFinite /\ call.pitch_type # S_Fastball
        /\ call.player_fastball_velocity # None)
        => LET ref == call.player_fastball_velocity
               v == locals.metrics.velocity
               score == locals.scores.speed_diff
           IN  /\ score = Min1(Max0(ref - v) * (PerUnit \div 15))
               /\ (v < ref => score > 0)
               /\ (v >= ref => score = 0)

\* a non-Fastball group slower than its reference by less than 15 mph
C5_Witness ==
    /\ ScoredFinite
    /\ call.pitch_type = S_ChangeUp
    /\ call.player_fastball_velocity = Lit(95)
    /\ locals.metrics.velocity = Lit(85)
    /\ locals.scores.speed_diff > 0
    /\ locals.scores.speed_diff < One

\* C6: for finite metrics each of the nine factor scores lies in [0, 1], and
\* the ChangeUp spin score is at least 0.2
C6_ScoresInUnitInterval ==
    ScoredFinite =>
        /\ \A x \in ScoreSet(locals.scores) : x >= 0 /\ x <= One
        /\ (call.pitch_type = S_ChangeUp => 5 * locals.scores.spin_rate >= One)

\* a ChangeUp group of high spin, held at the 0.2 floor
C6_Witness ==
    /\ ScoredFinite
    /\ call.pitch_type = S_ChangeUp
    /\ locals.metrics.spin_rate = Lit(3200)
    /\ 5 * locals.scores.spin_rate = One

\* C7: the velocity and spin curves are chosen by category: Fastball, ChangeUp,
\* and one shared curve for every other category
C7_CurvesByCategory ==
    ScoredFinite =>
        LET v == locals.metrics.velocity
            spin == locals.metrics.spin_rate
            p == call.pitch_type
            inverted == One - (spin - Lit(1000)) * (PerUnit \div 1500)
        IN  /\ p = S_Fastball =>
                  /\ locals.scores.velocity = Clip01((v - Lit(70)) * (PerUnit \div 30))
                  /\ locals.scores.spin_rate =
                         Clip01((spin - Lit(1800)) * (PerUnit \div 1200))
            /\ p = S_ChangeUp =>
                  /\ locals.scores.velocity = Clip01((v - Lit(65)) * (PerUnit \div 25))
                  /\ locals.scores.spin_rate =
                         (IF 5 * inverted < One THEN One \div 5 ELSE Min1(inverted))
            /\ p \in {S_Slider, S_Curveball, S_Cutter, S_Splitter} =>
                  /\ locals.scores.velocity = Clip01((v - Lit(65)) * (PerUnit \div 30))
                  /\ locals.scores.spin_rate =
                         Clip01((spin - Lit(2000)) * (PerUnit \div 1000))

\* a ChangeUp group inside its velocity range, where the three curves differ
C7_Witness ==
    /\ ScoredFinite
    /\ call.pitch_type = S_ChangeUp
    /\ locals.metrics.velocity = Lit(85)
    /\ locals.scores.velocity = (One \div 5) * 4

-----------------------------------------------------------------------------
(* Properties of calculate_player_stuff_plus, checked under Spec *)

\* the vendor label of each canonical category, in the order of the loop
VendorLabels ==
    <<S_Fastball, S_ChangeUp, S_Slider, S_CurveBall, S_Cutter, S_Splitter>>

\* the key under which each category is stored
CategoryKeys ==
    <<S_Fastball, S_ChangeUp, S_Slider, S_Curveball, S_Cutter, S_Splitter>>

\* the rows of the table carrying exactly this label
RowsLabelled(data, label) == SelectSeq(data, LAMBDA r : r["Pitch Type"] = label)

\* C8: the group of a category holds exactly the rows whose pitch type equals
\* the category's vendor label; rows labelled "fastball" or "Fastball (2-seam)"
\* are in no group
C8_ExactGrouping ==
    (pc \in {"loop", "done"} /\ cat_idx >= 2)
        => /\ pitch_type_data = RowsLabelled(pitch_data, VendorLabels[cat_idx - 1])
           /\ \A i \in 1..Len(pitch_type_data) :
                  pitch_type_data[i]["Pitch Type"] \notin {S_fastball, S_Fastball2Seam}

\* the Fastball group has just been selected from a table that holds one
\* Fastball row and one row labelled "fastball" or "Fastball (2-seam)"
C8_Witness ==
    /\ pc = "loop"
    /\ cat_idx = 2
    /\ Len(pitch_data) = 2
    /\ Len(pitch_type_data) = 1
    /\ \E i \in 1..2 : pitch_data[i]["Pitch Type"] \in {S_fastball, S_Fastball2Seam}

\* the labels drawn that contain "Fastball" when case is ignored
FastballLikeLabels == {S_Fastball, S_fastball, S_Fastball2Seam}

\* the reference fastball velocity a table should give
ExpectedReference(data) ==
    LET rows == SelectSeq(data, LAMBDA r : r["Pitch Type"] \in FastballLikeLabels)
    IN  IF rows = <<>> THEN None ELSE Mean(Column(rows, "Velocity"))

\* C9: the reference fastball velocity is the mean velocity of the rows whose
\* pitch type contains "Fastball", case ignored, None without such a row, and
\* every category is scored with that one value
C9_ReferenceVelocity ==
    (pc \in {"loop", "done"})
        => /\ player_fastball_velocity = ExpectedReference(pitch_data)
           /\ call.made =>
                  call.player_fastball_velocity = ExpectedReference(pitch_data)

\* a ChangeUp scored against a reference that comes only from rows labelled
\* "fastball" or "Fastball (2-seam)"
C9_Witness ==
    /\ pc = "done"
    /\ call.made
    /\ call.pitch_type = S_ChangeUp
    /\ call.player_fastball_velocity = Lit(95)
    /\ \A i \in 1..Len(pitch_data) : pitch_data[i]["Pitch Type"] # S_Fastball

\* the keys of the categories with at least one row of their vendor label
ExpectedKeys(data) ==
    {CategoryKeys[i] : i \in {j \in 1..Len(VendorLabels) :
                                 RowsLabelled(data, VendorLabels[j]) # <<>>}}

-----------------------------------------------------------------------------
(* Properties of calculate_player_stuff_plus on unfiltered tables, checked
   under SpecCalc *)

\* every row of the table carries the placeholder "-" or the empty text
AllDashOrEmpty(data) ==
    \A i \in 1..Len(data) : data[i]["Pitch Type"] \in {S_Dash, S_Empty}

\* C11: a table whose every pitch type is "-" or empty gives an empty mapping,
\* and the run raises nothing
C11_InvalidOnlyGivesEmpty ==
    AllDashOrEmpty(pitch_data)
        => /\ pc # "error"
           /\ pitch_stuff = EmptyDict
           /\ ~call.made

\* the function has returned for a table of two invalid rows
C11_Witness ==
    /\ pc = "done"
    /\ Len(pitch_data) = 2
    /\ AllDashOrEmpty(pitch_data)
    /\ pitch_data[1]["Pitch Type"] # pitch_data[2]["Pitch Type"]
    /\ pitch_stuff = EmptyDict

-----------------------------------------------------------------------------
(* Properties of the whole run, from the CSV to the mapping, checked under Spec *)

\* the pitch types that make a row invalid: missing, empty, the placeholder
InvalidLabels == {NaLabel, S_Empty, S_Dash}

\* the CSV without its invalid rows
WithoutInvalid(rows) ==
    SelectSeq(rows, LAMBDA r : r["Pitch Type"] \notin InvalidLabels)

\* the mapping is the one the function gives for the table it was passed
PitchStuffIsFunctionOfTable ==
    pc = "done" => pitch_stuff = PlayerStuffPlus(pitch_data, columns)

\* C12: rows whose pitch type is missing, empty or "-" contribute to no group,
\* count, mean or reference: the mapping is the one the CSV gives with those
\* rows removed, and their presence makes no run fail
C12_InvalidRowsIgnored ==
    /\ pc # "error"
    /\ pc = "done" =>
           pitch_stuff =
               PlayerStuffPlus(Coerced(WithoutInvalid(csv_rows), columns), columns)
    /\ pc = "no_player" => WithoutInvalid(csv_rows) = <<>>

\* a CSV of one ChangeUp and one invalid row carrying a velocity: the ChangeUp
\* is scored alone, with no reference
C12_Witness ==
    /\ pc = "done"
    /\ Len(csv_rows) = 2
    /\ \E i \in 1..2 :
          /\ csv_rows[i]["Pitch Type"] \in InvalidLabels
          /\ csv_rows[i]["Velocity"] = 95
    /\ DOMAIN pitch_stuff = {S_ChangeUp}
    /\ pitch_stuff[S_ChangeUp].count = 1
    /\ player_fastball_velocity = None

\* C13: a group whose mean velocity is NaN produces a Stuff+ that is not finite
C13_NanVelocityNotFinite ==
    (pc = "returned" /\ IsNaN(locals.metrics.velocity)) => IsNaN(locals.stuff_plus)

\* the rows of a group that carry a value in this column
PresentAt(group, name) == {i \in 1..Len(group) : ~IsNaN(group[i][name])}

RECURSIVE SumAt(_, _, _)
\* the sum of a column over a set of rows
SumAt(group, name, rows) ==
    IF rows = {} THEN 0
    ELSE LET i == CHOOSE j \in rows : TRUE
         IN  group[i][name] + SumAt(group, name, rows \ {i})

\* avg is the sum of the present values of the column over their number, NaN
\* when no row has a value
IsMeanOfPresent(avg, group, name) ==
    LET present == PresentAt(group, name)
    IN  IF present = {} THEN IsNaN(avg)
        ELSE /\ ~IsNaN(avg)
             /\ avg * Cardinality(present) = SumAt(group, name, present) * MeanScale

\* C14: a missing cell is left out of its own column's mean only, never counted
\* as zero; its row is counted in the group and gives its other cells, and the
\* group is scored
C14_AbsentValueExcluded ==
    pc = "done" =>
        \A i \in 1..Len(CategoryKeys) :
            LET group == RowsLabelled(pitch_data, VendorLabels[i])
            IN  group # <<>> =>
                    /\ CategoryKeys[i] \in DOMAIN pitch_stuff
                    /\ LET entry == pitch_stuff[CategoryKeys[i]]
                       IN  /\ entry.count = Len(group)
                           /\ IsMeanOfPresent(entry.avg_velocity, group, "Velocity")
                           /\ IsMeanOfPresent(entry.avg_spin, group, "Total Spin")
                           /\ IsMeanOfPresent(entry.avg_v_break, group,
                                              "VB (trajectory)")
                           /\ entry.stuff_plus >= 40 * StuffUnit
                           /\ entry.stuff_plus <= 160 * StuffUnit

\* a ChangeUp group of two rows, one without a velocity: the mean velocity is
\* the other row's, the spin mean is over both
C14_Witness ==
    /\ pc = "done"
    /\ S_ChangeUp \in DOMAIN pitch_stuff
    /\ pitch_stuff[S_ChangeUp].count = 2
    /\ \E i \in 1..2 : IsNaN(pitch_data[i]["Velocity"])
    /\ pitch_stuff[S_ChangeUp].avg_velocity = Lit(78)
    /\ pitch_stuff[S_ChangeUp].avg_spin = Lit(2400)

RECURSIVE SumAbsAt(_, _, _)
\* the sum of the absolute values of a column over a set of rows
SumAbsAt(group, name, rows) ==
    IF rows = {} THEN 0
    ELSE LET i == CHOOSE j \in rows : TRUE
         IN  Abs(group[i][name]) + SumAbsAt(group, name, rows \ {i})

\* the rows of the group break to both sides
MixedSigns(group) ==
    /\ \E i \in 1..Len(group) : group[i]["HB (trajectory)"] > 0
    /\ \E i \in 1..Len(group) : group[i]["HB (trajectory)"] < 0

\* C15 as stated: avg_h_break is the mean of the absolute horizontal breaks
C15_MeanOfAbsolute ==
    pc = "done" =>
        \A i \in 1..Len(CategoryKeys) :
            LET group == RowsLabelled(pitch_data, VendorLabels[i])
                rows == PresentAt(group, "HB (trajectory)")
            IN  group # <<>> =>
                    pitch_stuff[CategoryKeys[i]].avg_h_break * Cardinality(rows)
                        = SumAbsAt(group, "HB (trajectory)", rows) * MeanScale

\* C15: the horizontal-break aggregate of a group, stored as avg_h_break and
\* scored as h_break, is the absolute value of the mean of the signed breaks;
\* it is the mean of the absolute breaks when the rows break to one side
C15_AbsoluteOfMean ==
    /\ pc = "done" =>
        \A i \in 1..Len(CategoryKeys) :
            LET group == RowsLabelled(pitch_data, VendorLabels[i])
                rows == PresentAt(group, "HB (trajectory)")
                avg == pitch_stuff[CategoryKeys[i]].avg_h_break
            IN  group # <<>> =>
                    /\ avg * Cardinality(rows)
                           = Abs(SumAt(group, "HB (trajectory)", rows)) * MeanScale
                    /\ ~MixedSigns(group) =>
                           avg * Cardinality(rows)
                               = SumAbsAt(group, "HB (trajectory)", rows) * MeanScale
    /\ (pc \in {"loop", "done"} /\ call.made) =>
           LET rows == PresentAt(call.df, "HB (trajectory)")
           IN  locals.metrics.h_break * Cardinality(rows)
                   = Abs(SumAt(call.df, "HB (trajectory)", rows)) * MeanScale

\* a Fastball group of two rows breaking 8 inches to either side: the
\* aggregate is 0
C15_Witness ==
    /\ pc = "done"
    /\ S_Fastball \in DOMAIN pitch_stuff
    /\ pitch_stuff[S_Fastball].count = 2
    /\ MixedSigns(RowsLabelled(pitch_data, S_Fastball))
    /\ pitch_stuff[S_Fastball].avg_h_break = 0

-----------------------------------------------------------------------------
(* The page's display of one player: the mapping, the movement chart and the
   summary table, each with its own outlier filter *)

\* the most pitches of one table shown
MaxSeries == 5

\* quantiles are whole numbers of quarters of the series' unit
QuantileScale == 2 * 2

\* the series in ascending order
Sorted(data) == SortSeq(data, LAMBDA a, b : a < b)

\* Series.quantile(k / 4), linear interpolation, in quarters; NaN when empty
Quantile(data, k) ==
    IF data = <<>> THEN NaN
    ELSE LET s == Sorted(data)
             position == (Len(data) - 1) * k
             lo == position \div QuantileScale + 1
             fraction == position % QuantileScale
         IN  IF fraction = 0 THEN QuantileScale * s[lo]
             ELSE QuantileScale * s[lo] + fraction * (s[lo + 1] - s[lo])

\* data[(data >= lower_bound) & (data <= upper_bound)], bounds in quarters
Between(data, lower_bound, upper_bound) ==
    SelectSeq(data, LAMBDA x : /\ ~IsNaN(lower_bound)
                               /\ QuantileScale * x >= lower_bound
                               /\ QuantileScale * x <= upper_bound)

\* the movement chart's filter
remove_outliers(data) ==
    LET Q1 == Quantile(data, 1)
        Q3 == Quantile(data, 3)
        IQR == Q3 - Q1
        lower_bound == Q1 - 2 * IQR
        upper_bound == Q3 + 2 * IQR
    IN  Between(data, lower_bound, upper_bound)

\* the chart's cleaning of the two break series of one pitch type
ChartClean(hb_data, vb_data) ==
    IF Len(hb_data) >= 3
    THEN LET hb_clean == remove_outliers(hb_data)
             vb_clean == remove_outliers(vb_data)
         IN  IF Len(hb_clean) >= 1 /\ Len(vb_clean) >= 1
             THEN [hb |-> hb_clean, vb |-> vb_clean]
             ELSE [hb |-> hb_data, vb |-> vb_data]
    ELSE [hb |-> hb_data, vb |-> vb_data]

\* the summary filter keeping what it should reject, with no fallback
remove_outliers_rejected(data) ==
    IF Len(data) >= 3
    THEN LET Q1 == Quantile(data, 1)
             Q3 == Quantile(data, 3)
             IQR == Q3 - Q1
         IN  IF IQR > 0
             THEN SelectSeq(data, LAMBDA x :
                      \/ QuantileScale * x < Q1 - 2 * IQR
                      \/ QuantileScale * x > Q3 + 2 * IQR)
             ELSE data
    ELSE data

\* the summary filter with bounds that exclude their end points
remove_outliers_strict(data) ==
    IF Len(data) >= 3
    THEN LET Q1 == Quantile(data, 1)
             Q3 == Quantile(data, 3)
             IQR == Q3 - Q1
             filtered == Between(data, Q1 - 2 * IQR + 1, Q3 + 2 * IQR - 1)
         IN  IF IQR > 0
             THEN IF Len(filtered) >= 1 THEN filtered ELSE data
             ELSE data
    ELSE data

\* the summary table's filter
remove_outliers_for_summary(data) ==
    IF Len(data) >= 3
    THEN LET Q1 == Quantile(data, 1)
             Q3 == Quantile(data, 3)
             IQR == Q3 - Q1
             lower_bound == Q1 - 2 * IQR
             upper_bound == Q3 + 2 * IQR
             filtered == Between(data, lower_bound, upper_bound)
         IN  IF IQR > 0
             THEN IF Len(filtered) >= 1 THEN filtered ELSE data
             ELSE data
    ELSE data

\* the horizontal breaks drawn, inches: a tight cluster, a value on the upper
\* bound of [0, 0, 0, 1, 3] and one beyond it
SubsetBreaks == {0, 1, 3, 4}

\* the CSV rows drawn: Sliders whose velocity follows their horizontal break,
\* and one whose horizontal break cell is unparsable
SubsetRows ==
    {Row(S_Slider, 80 + h, 2400, 14, h, 60, -18, 2) : h \in SubsetBreaks}
    \cup {Row(S_Slider, 80, 2400, 30, Unparsable, 60, -18, 2)}

\* the pitch types of a table
PitchTypes(data) == {data[i]["Pitch Type"] : i \in 1..Len(data)}

\* what the chart shows for one pitch type (lines 577-607)
ChartOf(pitch_subset) ==
    LET hb_data == DropNa(Column(pitch_subset, "HB (trajectory)"))
        vb_data == DropNa(Column(pitch_subset, "VB (trajectory)"))
    IN  IF Len(hb_data) > 0 /\ Len(vb_data) > 0
        THEN LET clean == ChartClean(hb_data, vb_data)
             IN  [drawn |-> TRUE, hb_data |-> clean.hb, vb_data |-> clean.vb,
                  mean_hb |-> Mean(clean.hb), mean_vb |-> Mean(clean.vb)]
        ELSE [drawn |-> FALSE, hb_data |-> hb_data, vb_data |-> vb_data,
              mean_hb |-> NaN, mean_vb |-> NaN]

\* the cleaned series of the summary row of one pitch type (lines 2187-2215)
SummaryOf(pitch_subset) ==
    LET Present(name) == DropNa(Column(pitch_subset, name))
        Numeric(name) ==
            DropNa([i \in 1..Len(Present(name)) |-> ToNumeric(Present(name)[i])])
    IN  [hb_clean |-> remove_outliers_for_summary(Numeric("HB (trajectory)")),
         vb_clean |-> remove_outliers_for_summary(Numeric("VB (trajectory)")),
         velocity_clean |-> remove_outliers_for_summary(Numeric("Velocity")),
         spin_clean |-> remove_outliers_for_summary(Numeric("Total Spin"))]

InitFilter ==
    /\ pc = "loaded"
    /\ csv_rows \in Tables(SubsetRows, MaxSeries) \ {<<>>}
    /\ columns = AllColumns
    /\ pitch_data = Coerced(ValidPitches(csv_rows), columns)
    /\ player_fastball_velocity = None
    /\ cat_idx = 0
    /\ pitch_type_data = <<>>
    /\ pitch_stuff = EmptyDict
    /\ call = NoCall
    /\ locals = NoLocals
    /\ subset = <<>>
    /\ display = NoDisplay
    /\ runs = NoRuns
    /\ fetch = NoFetch

\* main, lines 2100-2104: the mapping, and the stop when it is empty
ComputePitchStuff ==
    /\ pc = "loaded"
    /\ IF StrAccessorFails(pitch_data)
       THEN /\ pc' = "error"
            /\ UNCHANGED pitch_stuff
       ELSE /\ pitch_stuff' = PlayerStuffPlus(pitch_data, columns)
            /\ pc' = IF pitch_stuff' = EmptyDict THEN "stopped" ELSE "done"
    /\ UNCHANGED <<csv_rows, columns, pitch_data, player_fastball_velocity,
                   cat_idx, pitch_type_data, call, locals, subset, display>>
    /\ UNCHANGED <<runs, fetch>>

\* create_movement_chart, one pitch type of the loop
DrawMovementChart ==
    /\ pc = "done"
    /\ \E pitch_type \in PitchTypes(pitch_data) :
          /\ subset' = RowsLabelled(pitch_data, pitch_type)
          /\ display' = [shown |-> TRUE, pitch_type |-> pitch_type,
                         chart |-> ChartOf(subset')]
    /\ pc' = "charted"
    /\ UNCHANGED <<csv_rows, columns, pitch_data, player_fastball_velocity,
                   cat_idx, pitch_type_data, pitch_stuff, call, locals>>
    /\ UNCHANGED <<runs, fetch>>

\* main, the summary table's row of the same pitch type
FilterSummarySeries ==
    /\ pc = "charted"
    /\ display.pitch_type \notin {S_Dash, S_Empty, NaLabel}
    /\ subset' = RowsLabelled(pitch_data, display.pitch_type)
    /\ display' = [shown |-> TRUE, pitch_type |-> display.pitch_type,
                   chart |-> display.chart, summary |-> SummaryOf(subset')]
    /\ pc' = "summarised"
    /\ UNCHANGED <<csv_rows, columns, pitch_data, player_fastball_velocity,
                   cat_idx, pitch_type_data, pitch_stuff, call, locals>>
    /\ UNCHANGED <<runs, fetch>>

\* the Stuff+ cell of the summary row: the stored value, else a direct call
SummaryStuffPlus(pitch_type, pitch_subset, data, cols, stuff, velocity_clean) ==
    LET stuff_plus_val == IF pitch_type \in DOMAIN stuff
                          THEN stuff[pitch_type].stuff_plus ELSE None
        fastball_data == FastballData(data)
        fb_velo_data ==
            DropNa([i \in 1..Len(fastball_data) |->
                       ToNumeric(fastball_data[i]["Velocity"])])
        fastball_velocity ==
            IF Len(fastball_data) > 0 /\ Len(fb_velo_data) > 0
            THEN Mean(fb_velo_data) ELSE None
    IN  IF stuff_plus_val = None /\ Len(velocity_clean) > 0
        THEN calculate_bonnies_stuff_plus_for_pitch_type(
                 pitch_subset, cols, pitch_type, fastball_velocity)
        ELSE stuff_plus_val

\* main, the Stuff+ and Count cells appended for the pitch type
AppendSummaryRow ==
    /\ pc = "summarised"
    /\ display' = [shown |-> TRUE, pitch_type |-> display.pitch_type,
                   chart |-> display.chart, summary |-> display.summary,
                   row |-> [stuff_plus_val |->
                                SummaryStuffPlus(display.pitch_type, subset,
                                    pitch_data, columns, pitch_stuff,
                                    display.summary.velocity_clean),
                            count |-> Len(subset)]]
    /\ pc' = "row"
    /\ UNCHANGED <<csv_rows, columns, pitch_data, player_fastball_velocity,
                   cat_idx, pitch_type_data, pitch_stuff, call, locals, subset>>
    /\ UNCHANGED <<runs, fetch>>

NextFilter ==
    \/ ComputePitchStuff
    \/ DrawMovementChart
    \/ FilterSummarySeries
    \/ AppendSummaryRow

SpecFilter == InitFilter /\ [][NextFilter]_vars

\* the page of a player whose CSV has a valid row
InitPage ==
    /\ pc = "loaded"
    /\ csv_rows \in Tables(CsvRows, MaxRows)
    /\ ValidPitches(csv_rows) # <<>>
    /\ columns \in CsvColumnSets
    /\ pitch_data = Coerced(ValidPitches(csv_rows), columns)
    /\ player_fastball_velocity = None
    /\ cat_idx = 0
    /\ pitch_type_data = <<>>
    /\ pitch_stuff = EmptyDict
    /\ call = NoCall
    /\ locals = NoLocals
    /\ subset = <<>>
    /\ display = NoDisplay
    /\ runs = NoRuns
    /\ fetch = NoFetch

SpecPage == InitPage /\ [][NextFilter]_vars

\* the summary series are on the page
Summarised == pc \in {"summarised", "row"}

\* C16: the outlier filter is idempotent
C16_FilterIdempotent ==
    Summarised =>
        /\ remove_outliers_for_summary(display.summary.hb_clean)
               = display.summary.hb_clean
        /\ remove_outliers_for_summary(display.summary.velocity_clean)
               = display.summary.velocity_clean

\* the values present in a column of the rows shown, as numbers
Observations(name) == DropNa(Column(subset, name))

\* the four columns the summary table filters
SummaryColumns ==
    {"HB (trajectory)", "VB (trajectory)", "Velocity", "Total Spin"}

\* the cleaned series the summary row holds for a column
SummaryClean(name) ==
    CASE name = "HB (trajectory)" -> display.summary.hb_clean
      [] name = "VB (trajectory)" -> display.summary.vb_clean
      [] name = "Velocity" -> display.summary.velocity_clean
      [] name = "Total Spin" -> display.summary.spin_clean

\* C17: the outlier filter never returns an empty series for a non-empty one,
\* in the summary table and in the chart
C17_FilterNeverEmpty ==
    Summarised =>
        /\ \A name \in SummaryColumns :
               Observations(name) # <<>> => SummaryClean(name) # <<>>
        /\ display.chart.drawn =>
               /\ display.chart.hb_data # <<>>
               /\ display.chart.vb_data # <<>>
        /\ \A name \in SummaryColumns :
               Observations(name) # <<>> =>
                   remove_outliers(Observations(name)) # <<>>

\* a series of five horizontal breaks lost a value to the filter, in the
\* summary and in the chart
C17_Witness ==
    /\ Summarised
    /\ Len(Observations("HB (trajectory)")) = 5
    /\ Len(display.summary.hb_clean) = 4
    /\ Len(display.chart.hb_data) = 4

\* what the filter is to return for a series, bounds in quarters
ExpectedFiltered(data) ==
    LET Q1 == Quantile(data, 1)
        Q3 == Quantile(data, 3)
        IQR == Q3 - Q1
    IN  IF Len(data) < 3 \/ IQR = 0 THEN data
        ELSE SelectSeq(data, LAMBDA x :
                 /\ Q1 - 2 * IQR <= QuantileScale * x
                 /\ QuantileScale * x <= Q3 + 2 * IQR)

\* C18: the summary filter returns a series of fewer than 3 values, or of
\* IQR 0, unmodified, and otherwise exactly the values within
\* [Q1 - 2 IQR, Q3 + 2 IQR], in their order and multiplicity
C18_FilterBounds ==
    Summarised =>
        \A name \in SummaryColumns :
            SummaryClean(name) = ExpectedFiltered(Observations(name))

\* the value 3 of the breaks 0, 0, 0, 1, 3 (in some order) lies on the upper
\* bound and is kept; the same rows' velocities are 80, 80, 80, 81, 83
C18_Witness ==
    /\ Summarised
    /\ LET data == Observations("HB (trajectory)")
       IN  /\ Len(data) = 5
           /\ Quantile(data, 3) > Quantile(data, 1)
           /\ \E i \in 1..5 :
                  QuantileScale * data[i]
                      = 3 * Quantile(data, 3) - 2 * Quantile(data, 1)
           /\ display.summary.hb_clean = data

\* C19: for a series of at least 3 observations the chart and the summary
\* table keep the same observations
C19_ChartAndSummaryAgree ==
    (Summarised /\ display.chart.drawn) =>
        /\ Len(Observations("HB (trajectory)")) >= 3 =>
               display.chart.hb_data = display.summary.hb_clean
        /\ Len(Observations("VB (trajectory)")) >= 3 =>
               display.chart.vb_data = display.summary.vb_clean

\* C20: the aggregates stored with the Stuff+ of a group are the means of the
\* group's outlier-filtered series
C20_ScorerUsesFilteredMeans ==
    (Summarised /\ display.pitch_type \in DOMAIN pitch_stuff) =>
        LET entry == pitch_stuff[display.pitch_type]
        IN  /\ entry.avg_velocity = Mean(display.summary.velocity_clean)
            /\ entry.avg_spin = Mean(display.summary.spin_clean)
            /\ entry.avg_h_break = Abs(Mean(display.summary.hb_clean))
            /\ entry.avg_v_break = Mean(display.summary.vb_clean)

\* the key under which a vendor label's category is stored
KeyOfLabel(label) ==
    CategoryKeys[CHOOSE i \in 1..Len(VendorLabels) : VendorLabels[i] = label]

\* C21: the Stuff+ of the summary row of a canonical vendor label is the
\* stuff_plus stored for its category
C21_SummaryShowsStoredStuffPlus ==
    (pc = "row" /\ display.pitch_type \in {VendorLabels[i] : i \in 1..Len(VendorLabels)})
        => /\ KeyOfLabel(display.pitch_type) \in DOMAIN pitch_stuff
           /\ display.row.stuff_plus_val
                  = pitch_stuff[KeyOfLabel(display.pitch_type)].stuff_plus

\* the same, for pitch types with a velocity on record
SummaryShowsStoredWhenVelocityKnown ==
    (pc = "row" /\ display.pitch_type \in {VendorLabels[i] : i \in 1..Len(VendorLabels)}
        /\ Observations("Velocity") # <<>>)
        => display.row.stuff_plus_val
               = pitch_stuff[KeyOfLabel(display.pitch_type)].stuff_plus

-----------------------------------------------------------------------------
(* Scenarios and relations between calls of the scorer, checked under SpecScore *)

\* the scorer has returned for the group of identical fastballs, as Fastball
Scenario1 ==
    /\ pc = "returned"
    /\ call.pitch_type = S_Fastball
    /\ call.cols = AllColumns
    /\ Len(call.df) = ScenarioPitches
    /\ \A i \in 1..Len(call.df) :
           call.df[i] = Row(S_Fastball, 95, 2400, 14, 8, 60, -18, 2)

\* C22: ten identical Fastball records (95 mph, 2400 rpm, HB 8, VB 14, height
\* 6.0, side -1.8, angle 2) score above 110 and are graded Above Average or Elite
C22_ScenarioAboveAverage ==
    Scenario1 =>
        /\ locals.stuff_plus > 110 * StuffUnit
        /\ Interpretation(locals.stuff_plus) \in {"Above Average", "Elite"}

\* the scenario scored: 115.65, whatever the reference
C22_Witness ==
    /\ Scenario1
    /\ locals.metrics.velocity = Lit(95)
    /\ locals.stuff_plus = 11565 * (StuffUnit \div 100)

\* the scorer has returned for a ChangeUp group of mean velocity 78 with the
\* reference fastball velocity 95
Scenario2 ==
    /\ pc = "returned"
    /\ call.pitch_type = S_ChangeUp
    /\ locals.metrics.velocity = Lit(78)
    /\ call.player_fastball_velocity = Lit(95)

\* C23: a ChangeUp group of mean velocity 78 scores differently with the
\* reference 95 and with no reference, and lower with no reference
C23_ScenarioReferenceMatters ==
    Scenario2 =>
        calculate_bonnies_stuff_plus_for_pitch_type(
            call.df, call.cols, S_ChangeUp, None) < locals.stuff_plus

\* the scenario scored on a group of two pitches, one with no velocity read
C23_Witness ==
    /\ Scenario2
    /\ Len(call.df) = 2
    /\ locals.speed_diff = Lit(17)
    /\ locals.scores.speed_diff = One

\* the three release-geometry columns
ReleaseColumns == {"Release Height", "Release Side", "Horizontal Angle"}

\* every cell of the column is missing
AllMissing(df, name) == \A i \in 1..Len(df) : IsNaN(df[i][name])

\* C24: without the release columns the scorer uses 5.5, 0 and 0, which score
\* 0, 0 and 1.0; a column that exists with every value missing gives NaN, not
\* the default
C24_ReleaseDefaults ==
    pc = "returned" =>
        /\ call.cols \cap ReleaseColumns = {} =>
               /\ locals.metrics.release_height = Lit(55)
               /\ locals.metrics.release_side = 0
               /\ locals.metrics.horizontal_angle = 0
               /\ locals.scores.release_height = 0
               /\ locals.scores.release_side = 0
               /\ locals.scores.horizontal_angle = One
        /\ ReleaseColumns \subseteq call.cols =>
               /\ AllMissing(call.df, "Release Height")
                      => IsNaN(locals.metrics.release_height)
               /\ AllMissing(call.df, "Release Side")
                      => IsNaN(locals.metrics.release_side)
               /\ AllMissing(call.df, "Horizontal Angle")
                      => IsNaN(locals.metrics.horizontal_angle)

\* a table without release columns was scored, its rows' own release cells
\* (6.0 ft, -1.8 ft, 2 deg) left unread
C24_Witness ==
    /\ pc = "returned"
    /\ call.cols \cap ReleaseColumns = {}
    /\ call.df[1]["Release Height"] = 60
    /\ call.df[1]["Release Side"] = -18
    /\ locals.scores.release_height = 0
    /\ locals.scores.horizontal_angle = One

\* a table whose release columns exist with every value missing was scored
C24_WitnessAllMissing ==
    /\ pc = "returned"
    /\ ReleaseColumns \subseteq call.cols
    /\ AllMissing(call.df, "Release Height")
    /\ IsNaN(locals.metrics.release_height)

\* C26: for finite metrics the value 100 + (composite - 0.5) * 100 lies in
\* [50, 156] before the clip, so the clip changes nothing and no group is
\* scored exactly 40 or exactly 160
C26_ClipNeverActs ==
    ScoredFinite =>
        /\ locals.uncapped >= 50 * StuffUnit
        /\ locals.uncapped <= 156 * StuffUnit
        /\ locals.stuff_plus = locals.uncapped
        /\ locals.stuff_plus # 40 * StuffUnit
        /\ locals.stuff_plus # 160 * StuffUnit

\* nine factor scores of 1.0: the largest value, 156, is scored and not clipped
C26_Witness ==
    /\ ScoredFinite
    /\ ScoreSet(locals.scores) = {One}
    /\ locals.uncapped = 156 * StuffUnit
    /\ locals.stuff_plus = 156 * StuffUnit

\* nine factor scores of 0.0: the smallest value, 50
C26_WitnessLowest ==
    /\ ScoredFinite
    /\ ScoreSet(locals.scores) = {0}
    /\ locals.stuff_plus = 50 * StuffUnit

\* C27: for a non-Fastball category and finite metrics, the Stuff+ with no
\* reference is at most the Stuff+ of the same group with a known reference
C27_NoReferenceNeverHigher ==
    (ScoredFinite /\ call.pitch_type # S_Fastball
        /\ call.player_fastball_velocity # None)
        => calculate_bonnies_stuff_plus_for_pitch_type(
               call.df, call.cols, call.pitch_type, None) <= locals.stuff_plus

\* a Slider scored with a reference above its velocity: strictly more than
\* with no reference
C27_Witness ==
    /\ ScoredFinite
    /\ call.pitch_type = S_Slider
    /\ call.player_fastball_velocity = Lit(95)
    /\ locals.speed_diff > 0
    /\ calculate_bonnies_stuff_plus_for_pitch_type(
           call.df, call.cols, call.pitch_type, None) < locals.stuff_plus

\* a Slider thrown harder than the reference: the same as with no reference
C27_WitnessEqual ==
    /\ ScoredFinite
    /\ call.pitch_type = S_Slider
    /\ call.player_fastball_velocity = Lit(70)
    /\ locals.metrics.velocity > Lit(70)
    /\ calculate_bonnies_stuff_plus_for_pitch_type(
           call.df, call.cols, call.pitch_type, None) = locals.stuff_plus

\* the mph by which the velocity of a scored pitch is raised
VelocityRaises == {1, 2, 3, 10}

\* the group of one pitch, thrown this much harder
Harder(df, raise) ==
    <<[df[1] EXCEPT !["Velocity"] = df[1]["Velocity"] + raise]>>

\* C28: with the reference and every other metric fixed, a higher mean
\* velocity never gives a lower Stuff+
C28_MonotoneInVelocity ==
    (ScoredFinite /\ Len(call.df) = 1) =>
        \A raise \in VelocityRaises :
            calculate_bonnies_stuff_plus_for_pitch_type(
                Harder(call.df, raise), call.cols, call.pitch_type,
                call.player_fastball_velocity) >= locals.stuff_plus

\* the mph at which the velocity curve of a category reaches 1.0
CurveTop(pitch_type) == IF pitch_type = S_ChangeUp THEN 90 ELSE 95

\* the velocity of the scored pitch and its raised velocity both lie on the
\* rising part of the category's velocity curve, which starts at 65 mph
OnRisingCurve(raise) ==
    /\ locals.metrics.velocity >= Lit(65)
    /\ Add(locals.metrics.velocity, Lit(raise)) <= Lit(CurveTop(call.pitch_type))

\* C28, amended: a higher mean velocity never gives a lower Stuff+ for a
\* Fastball group, for a group scored with no reference, and for any group
\* while both velocities lie on the rising part of its velocity curve
C28_MonotoneWhereCurveRises ==
    (ScoredFinite /\ Len(call.df) = 1) =>
        \A raise \in VelocityRaises :
            (\/ call.pitch_type = S_Fastball
             \/ call.player_fastball_velocity = None
             \/ OnRisingCurve(raise))
                => calculate_bonnies_stuff_plus_for_pitch_type(
                       Harder(call.df, raise), call.cols, call.pitch_type,
                       call.player_fastball_velocity) >= locals.stuff_plus

\* a Slider at 85 mph with the reference 95: thrown 3 mph harder its speed
\* difference shrinks from 10 to 7 and its Stuff+ still rises
C28_Witness ==
    /\ ScoredFinite
    /\ Len(call.df) = 1
    /\ call.pitch_type = S_Slider
    /\ call.player_fastball_velocity = Lit(95)
    /\ locals.metrics.velocity = Lit(85)
    /\ OnRisingCurve(3)
    /\ SpeedDiff(S_Slider, Lit(95), Lit(88)) < locals.speed_diff
    /\ calculate_bonnies_stuff_plus_for_pitch_type(
           Harder(call.df, 3), call.cols, S_Slider, Lit(95)) > locals.stuff_plus

-----------------------------------------------------------------------------
(* The stored speed difference, checked under Spec *)

\* the speed difference the scorer uses for a stored category
ScoredSpeedDiff(pitch_category) ==
    IF pitch_category # S_Fastball /\ player_fastball_velocity # None
    THEN PyMax(0, Sub(player_fastball_velocity,
                      pitch_stuff[pitch_category].avg_velocity))
    ELSE 0

\* C29: the stored speed_diff is the max(0, reference - mean velocity) that is
\* scored, 0 for Fastball and without a reference, and never negative
C29_StoredSpeedDiffIsScored ==
    pc = "done" =>
        \A k \in DOMAIN pitch_stuff :
            /\ pitch_stuff[k].speed_diff = ScoredSpeedDiff(k)
            /\ ~IsNaN(pitch_stuff[k].speed_diff) => pitch_stuff[k].speed_diff >= 0

\* the stored speed_diff alone: a number is never negative
StoredSpeedDiffNonNegative ==
    pc = "done" =>
        \A k \in DOMAIN pitch_stuff :
            ~IsNaN(pitch_stuff[k].speed_diff) => pitch_stuff[k].speed_diff >= 0

-----------------------------------------------------------------------------
(* Two invocations of calculate_player_stuff_plus on different tables, their
   steps interleaved; each has the locals of its own call *)

\* the rows the two tables are drawn from
RunRows ==
    {Row(S_Fastball, 95, 2400, 14, -8, 60, -18, 2),
     Row(S_ChangeUp, 78, 2400, 14, -8, 60, -18, 2),
     Row(S_CurveBall, 78, 2400, 14, 8, 60, -18, 2)}

\* the frame of an invocation about to start on a table; given is the table
\* as the caller holds it
NewRun(data) ==
    [pc |-> "loaded", given |-> data, pitch_data |-> data, cols |-> AllColumns,
     player_fastball_velocity |-> None, cat_idx |-> 0, pitch_stuff |-> EmptyDict]

\* one step of an invocation: lines 317-323, one iteration of the loop of
\* lines 335-361, or the return of line 363
StepOf(r) ==
    IF r.pc = "loaded"
    THEN IF StrAccessorFails(r.pitch_data)
         THEN [r EXCEPT !.pc = "error"]
         ELSE [r EXCEPT !.player_fastball_velocity = FastballVelocity(r.pitch_data),
                        !.pitch_stuff = EmptyDict,
                        !.cat_idx = 1,
                        !.pc = "loop"]
    ELSE IF r.cat_idx > Len(pitch_type_mapping)
    THEN [r EXCEPT !.pc = "done"]
    ELSE LET pitch_category == pitch_type_mapping[r.cat_idx][1]
             group == PitchTypeData(r.pitch_data, pitch_type_mapping[r.cat_idx][2])
         IN  [r EXCEPT !.cat_idx = r.cat_idx + 1,
                       !.pitch_stuff =
                           IF EnoughPitches(group)
                           THEN Put(r.pitch_stuff, pitch_category,
                                    Entry(group, r.cols, pitch_category,
                                          r.player_fastball_velocity))
                           ELSE r.pitch_stuff]

\* a step of invocation i with pitch_stuff a dictionary shared by all calls
AfterStepShared(rs, i) ==
    LET r == StepOf(rs[i])
    IN  [j \in DOMAIN rs |->
            IF j = i THEN r ELSE [rs[j] EXCEPT !.pitch_stuff = r.pitch_stuff]]

\* a step of invocation i: only its own frame changes
AfterStep(rs, i) == [rs EXCEPT ![i] = StepOf(rs[i])]

InitRuns ==
    /\ pc = "runs"
    /\ \E d1, d2 \in Tables(RunRows, MaxRows) :
          /\ d1 # d2
          /\ runs = <<NewRun(d1), NewRun(d2)>>
    /\ csv_rows = <<>>
    /\ columns = AllColumns
    /\ pitch_data = <<>>
    /\ player_fastball_velocity = None
    /\ cat_idx = 0
    /\ pitch_type_data = <<>>
    /\ pitch_stuff = EmptyDict
    /\ call = NoCall
    /\ locals = NoLocals
    /\ subset = <<>>
    /\ display = NoDisplay
    /\ fetch = NoFetch

\* either invocation takes its next step
StepInvocation ==
    /\ pc = "runs"
    /\ \E i \in DOMAIN runs :
          /\ runs[i].pc \in {"loaded", "loop"}
          /\ runs' = AfterStep(runs, i)
    /\ UNCHANGED <<pc, csv_rows, columns, pitch_data, player_fastball_velocity,
                   cat_idx, pitch_type_data, pitch_stuff, call, locals,
                   subset, display, fetch>>

NextRuns == StepInvocation

SpecRuns == InitRuns /\ [][NextRuns]_vars

\* C25: interleaved invocations do not interfere: each keeps its table as
\* given, builds only entries of its own result, and returns the mapping it
\* returns when run alone
C25_RunsDoNotInterfere ==
    \A i \in DOMAIN runs :
        LET r == runs[i]
            alone == PlayerStuffPlus(r.given, r.cols)
        IN  /\ r.pitch_data = r.given
            /\ \A k \in DOMAIN r.pitch_stuff :
                   k \in DOMAIN alone /\ r.pitch_stuff[k] = alone[k]
            /\ r.pc = "done" => r.pitch_stuff = alone

\* both invocations have returned, with different non-empty mappings
C25_Witness ==
    /\ pc = "runs"
    /\ runs[1].pc = "done" /\ runs[2].pc = "done"
    /\ DOMAIN runs[1].pitch_stuff # {}
    /\ DOMAIN runs[2].pitch_stuff # {}
    /\ DOMAIN runs[1].pitch_stuff # DOMAIN runs[2].pitch_stuff

\* the two invocations are both inside their loops, at different categories
C25_WitnessInterleaved ==
    /\ pc = "runs"
    /\ runs[1].pc = "loop" /\ runs[2].pc = "loop"
    /\ runs[1].cat_idx = 3 /\ runs[2].cat_idx = 2
    /\ DOMAIN runs[1].pitch_stuff # {}

-----------------------------------------------------------------------------
(* fetch_player_forcedecks_tests: the paginated fetch of a player's tests *)

\* the page limit of the loop
max_pages == 10

\* modifiedDateUtc values are microseconds after some instant; a cursor keeps
\* four decimals of the second, hundreds of microseconds
CursorStep == 10 * 10

\* last_dt + timedelta(microseconds=1), formatted with %f and cut by [:-3]
NextModified(last_modified) == ((last_modified + 1) \div CursorStep) * CursorStep

\* one test of a response
Test(profileId, modifiedDateUtc) ==
    [profileId |-> profileId, modifiedDateUtc |-> modifiedDateUtc]

\* the test lists the server may send: empty; one test of the requested
\* player whose cursor does not advance; tests of the other player, advancing
\* or not; a last test with no date, or with one that cannot be parsed; a
\* test of the requested player with such a date before the last
ServerPages ==
    {<<>>,
     <<Test("p1", 0)>>,
     <<Test("p2", 199)>>,
     <<Test("p2", 0), Test("p1", 0)>>,
     <<Test("p1", 0), Test("p2", None)>>,
     <<Test("p1", 0), Test("p2", Unparsable)>>,
     <<Test("p1", Unparsable), Test("p2", 0)>>}

\* what requests.get and response.json can give
ServerResponses ==
    {[kind |-> k, tests |-> <<>>] : k \in {"204", "not_ok", "unparsable", "raises"}}
    \cup {[kind |-> "tests", tests |-> t] : t \in ServerPages}

\* the locals at the start of a call
NewFetch(profile_id, token) ==
    [pc |-> "called", profile_id |-> profile_id, token |-> token,
     current_url |-> None, page_count |-> 0, requests |-> 0,
     all_tests |-> <<>>, last_response |-> "none", result |-> <<>>]

\* the loop condition without the page limit
ContinueLoopUnbounded(f) == f.current_url # None

\* while current_url and page_count < max_pages
ContinueLoop(f) == f.current_url # None /\ f.page_count < max_pages

\* one iteration of the loop, for the response received
AfterResponse(f, response) ==
    LET g == [f EXCEPT !.page_count = f.page_count + 1,
                       !.requests = f.requests + 1,
                       !.last_response =
                           IF response.kind = "tests" /\ response.tests = <<>>
                           THEN "empty" ELSE response.kind]
        tests == response.tests
        filtered_tests ==
            SelectSeq(tests, LAMBDA test : test.profileId = f.profile_id)
        last_modified == tests[Len(tests)].modifiedDateUtc
    IN  IF response.kind = "raises"
        THEN [g EXCEPT !.pc = "returned", !.result = <<>>]
        ELSE IF response.kind # "tests" \/ tests = <<>>
        THEN [g EXCEPT !.pc = "after_loop"]
        ELSE IF last_modified = None
        THEN [g EXCEPT !.all_tests = f.all_tests \o filtered_tests,
                       !.current_url = None]
        ELSE IF last_modified = Unparsable
        THEN [g EXCEPT !.all_tests = f.all_tests \o filtered_tests,
                       !.pc = "after_loop",
                       !.last_response = "unparsable"]
        ELSE [g EXCEPT !.all_tests = f.all_tests \o filtered_tests,
                       !.current_url = NextModified(last_modified)]

\* the DataFrame returned after the loop; pd.to_datetime raises on a date it
\* cannot parse and the handler of line 945 returns an empty frame
Returned(all_tests) ==
    IF \E i \in 1..Len(all_tests) : all_tests[i].modifiedDateUtc = Unparsable
    THEN <<>> ELSE all_tests

InitFetch ==
    /\ pc = "fetch"
    /\ fetch \in {NewFetch(p, t) : p \in {"p1", ""}, t \in BOOLEAN}
    /\ csv_rows = <<>>
    /\ columns = AllColumns
    /\ pitch_data = <<>>
    /\ player_fastball_velocity = None
    /\ cat_idx = 0
    /\ pitch_type_data = <<>>
    /\ pitch_stuff = EmptyDict
    /\ call = NoCall
    /\ locals = NoLocals
    /\ subset = <<>>
    /\ display = NoDisplay
    /\ runs = NoRuns

\* everything but fetch
OtherThanFetch ==
    <<pc, csv_rows, columns, pitch_data, player_fastball_velocity, cat_idx,
      pitch_type_data, pitch_stuff, call, locals, subset, display, runs>>

\* lines 878-893: the early returns and the first URL
FetchStart ==
    /\ fetch.pc = "called"
    /\ fetch' = IF fetch.profile_id = "" \/ ~fetch.token
                THEN [fetch EXCEPT !.pc = "returned"]
                ELSE [fetch EXCEPT !.pc = "loop", !.current_url = 0]
    /\ UNCHANGED OtherThanFetch

\* lines 896-931: one request and the handling of its response
RequestPage ==
    /\ fetch.pc = "loop"
    /\ ContinueLoop(fetch)
    /\ \E response \in ServerResponses : fetch' = AfterResponse(fetch, response)
    /\ UNCHANGED OtherThanFetch

\* the loop condition is false
ExitLoop ==
    /\ fetch.pc = "loop"
    /\ ~ContinueLoop(fetch)
    /\ fetch' = [fetch EXCEPT !.pc = "after_loop"]
    /\ UNCHANGED OtherThanFetch

\* lines 933-942
ReturnTests ==
    /\ fetch.pc = "after_loop"
    /\ fetch' = [fetch EXCEPT !.pc = "returned",
                              !.result = Returned(fetch.all_tests)]
    /\ UNCHANGED OtherThanFetch

NextFetch ==
    \/ FetchStart
    \/ RequestPage
    \/ ExitLoop
    \/ ReturnTests

SpecFetch == InitFetch /\ [][NextFetch]_vars

\* the call runs on: its steps are those of one synchronous function
SpecFetchLive == SpecFetch /\ WF_vars(NextFetch)

\* the responses that end the loop at once
StoppingResponses == {"204", "not_ok", "empty", "unparsable", "raises"}

\* at most max_pages requests; nothing of another profile kept or returned;
\* a 204, non-OK, empty or unparsable page has ended the loop
FetchSafe ==
    fetch.pc # "idle" =>
        /\ fetch.requests <= max_pages
        /\ \A i \in 1..Len(fetch.all_tests) :
               fetch.all_tests[i].profileId = fetch.profile_id
        /\ \A i \in 1..Len(fetch.result) :
               fetch.result[i].profileId = fetch.profile_id
        /\ fetch.last_response \in StoppingResponses
               => fetch.pc \in {"after_loop", "returned"}

\* once the loop has ended no request is issued
NoRequestAfterLoop ==
    (fetch.pc \in {"after_loop", "returned"})
        => /\ fetch'.requests = fetch.requests
           /\ fetch'.pc \in {"after_loop", "returned"}

\* C30: the paginated fetch terminates for every sequence of responses: it
\* issues at most 10 requests, stops at the first 204, non-OK, empty or
\* unparsable page, and returns only tests of the requested profile
C30_FetchTerminates ==
    /\ []FetchSafe
    /\ [][NoRequestAfterLoop]_vars
    /\ <>(fetch.pc = "returned")

\* pages that never run out, each ending on the same modifiedDateUtc: ten
\* requests, ten tests returned
C30_Witness ==
    /\ fetch.pc = "returned"
    /\ fetch.requests = max_pages
    /\ fetch.current_url = 0
    /\ Len(fetch.result) = max_pages
    /\ \A i \in 1..Len(fetch.result) : fetch.result[i] = Test("p1", 0)

=============================================================================
